---- MODULE Spec2Model ----
(***************************************************************************)
(* The accounts store of satsigner (zustand + persist + immer).            *)
(*                                                                         *)
(* JavaScript objects have identity: getCurrentAccount returns the very    *)
(* object held by the store, and getTx/getUtxo mutate it in place with     *)
(* Array.prototype.push before handing it back to updateAccount.  The      *)
(* model therefore keeps a heap of account objects; the store's `accounts` *)
(* array and the local variable `account` of every suspended call hold     *)
(* references into it.                                                     *)
(***************************************************************************)
EXTENDS Integers, Sequences, FiniteSets, TLC

\* ------------------------------------------------------------------ bounds
MaxAccounts == 2      \* longest `accounts` array explored
MaxCalls == 2         \* async store calls suspended at the same time
MaxRefreshes == 2     \* refreshes started on the account transactions screen
\* seconds of clock time on the root layout
MaxSeconds == 3
\* gestures made on the utxo bubbles
MaxGestures == 3

\* ------------------------------------------------------------------ values
Names == {"a", "b"}
TxIds == {"t1"}
Vouts == 0 .. 1
TagLists == {<< >>, <<"kyc">>}

\* JavaScript `undefined` and `null`: two different values under `!==`.
Undefined == [js |-> "undefined"]
Null == [js |-> "null"]

\* A label is a string where one was set and undefined where none was.
Text(s) == [js |-> "string", text |-> s]
Labels == {Text("coffee")}

\* A timestamp is a Date object in memory; JSON storage turns it into a string.
DateOf(t) == [js |-> "Date", time |-> t]
IsoString(t) == [js |-> "string", time |-> t]

\* What the remote chain indexer answers for getTransaction(txid).
MempoolTx(txid) ==
    [txid |-> txid,
     size |-> IF txid = "t1" THEN 110 ELSE 222,
     status |-> [block_time |-> IF txid = "t1" THEN 1700 ELSE 1800],
     vout |-> IF txid = "t1"
              THEN << [value |-> 5, scriptpubkey_address |-> "bc1x"] >>
              ELSE << [value |-> 3, scriptpubkey_address |-> "bc1y"],
                      [value |-> 7, scriptpubkey_address |-> "bc1z"] >>]

\* data.vout.map((out) => ({ value: out.value, address: out.scriptpubkey_address }))
MapVout(outs) ==
    [i \in 1 .. Len(outs) |->
        [value |-> outs[i].value, address |-> outs[i].scriptpubkey_address]]

\* The Transaction record getTx builds from the indexer's answer.
BuildTransaction(data) ==
    [id |-> data.txid,
     type |-> "receive",
     sent |-> 0,
     received |-> 0,
     timestamp |-> DateOf(data.status.block_time),
     size |-> data.size,
     vout |-> MapVout(data.vout)]

\* The Utxo record getUtxo builds from the owning transaction.
BuildUtxo(txid, vout, tx) ==
    [txid |-> txid,
     vout |-> vout,
     value |-> tx.vout[vout + 1].value,
     timestamp |-> tx.timestamp,
     addressTo |-> tx.vout[vout + 1].address,
     keychain |-> "external",
     label |-> Undefined]

\* Transactions and utxos as the wallet library reports them after a sync.
WalletTx(txid) ==
    [BuildTransaction(MempoolTx(txid)) EXCEPT !.received = MempoolTx(txid).vout[1].value]
WalletUtxo(txid, vout) == BuildUtxo(txid, vout, WalletTx(txid))

Account(name, transactions, utxos) ==
    [name |-> name, transactions |-> transactions, utxos |-> utxos,
     summary |-> [balance |-> 0]]

\* The accounts callers hand to addAccount / updateAccount: newly created (no
\* history), synced with transactions only, synced with transactions and utxos.
SyncedTxs == <<WalletTx("t0"), WalletTx("t1")>>
SyncedUtxos == <<WalletUtxo("t0", 1), WalletUtxo("t1", 0)>>
InputAccounts ==
    UNION {{Account(n, << >>, << >>), Account(n, SyncedTxs, << >>),
            Account(n, SyncedTxs, SyncedUtxos)} : n \in Names}

\* ------------------------------------------------------------------- state
MaxRefs == MaxAccounts + MaxCalls + 1
Refs == 1 .. MaxRefs
NoRef == 0                              \* `undefined` where an object is expected
Free == [js |-> "free"]                 \* a heap cell holding no live object
None == [js |-> "none"]

\* A suspended call: its arguments, its local variables, where it waits, what
\* find() gave for the item it looks up, how many remote requests it has made,
\* whether it has changed the stored accounts, and (getUtxo) the result of the
\* same call made immediately before it.
Call(op, pc, name, txid, vout, label, account, tx, lookup, fetches, changed, first) ==
    [op |-> op, pc |-> pc, name |-> name, txid |-> txid, vout |-> vout, label |-> label,
     account |-> account, tx |-> tx, lookup |-> lookup, fetches |-> fetches,
     changed |-> changed, first |-> first]
Idle == Call("idle", "-", "-", "-", 0, None, NoRef, None, "-", 0, FALSE, None)

\* A settled call: its arguments, whether find() gave the item it looks up when
\* the call was made ("hit", "miss", or "noaccount"), how its promise settled and with what, its remote
\* requests, whether it changed the stored accounts, how many utxos the account
\* then held for its key, and `first` as above.
Done(op, name, txid, vout, label, lookup, outcome, value, fetches, changed, count, first) ==
    [op |-> op, name |-> name, txid |-> txid, vout |-> vout, label |-> label,
     lookup |-> lookup, outcome |-> outcome, value |-> value, fetches |-> fetches,
     changed |-> changed, count |-> count, first |-> first]
NoLast == Done("none", "-", "-", 0, None, "-", "-", None, 0, FALSE, 0, None)

VARIABLES
    accounts,     \* state.accounts: a sequence of references to account objects
    tags,         \* state.tags
    heap,         \* reference -> account object (or Free)
    frozen,       \* reference -> whether immer has frozen the object
    autoFreeze,   \* whether this build's immer freezes what produce returns
    persisted,    \* the JSON snapshot stored under 'satsigner-accounts'
    calls,        \* the async store calls suspended at an await
    last,         \* the call that settled last and its result; none while the
                  \* call made last is still suspended
    builder,      \* the transaction builder and the flow screen that shows it
    labelImport,  \* the label import screen
    screen,       \* the account transactions screen
    lock,         \* the root layout's inactivity lock
    zoom          \* the zoom gesture hook of the utxo bubbles screen

vars == <<accounts, tags, heap, frozen, autoFreeze, persisted, calls, last,
          builder, labelImport, screen, lock, zoom>>
storeVars == <<accounts, tags, heap, frozen, autoFreeze, persisted, calls, last>>

\* The part of the state that store operations transform.
Store == [accounts |-> accounts, heap |-> heap, frozen |-> frozen]

\* --------------------------------------------------------- array helpers
\* The callback of find/findIndex is given as the sequence of its results, one
\* per element.  Array.prototype.findIndex, 1-based; 0 stands for JavaScript's -1.
RECURSIVE FirstFrom(_, _)
FirstFrom(matches, i) ==
    IF i > Len(matches) THEN 0
    ELSE IF matches[i] THEN i
    ELSE FirstFrom(matches, i + 1)
FindIndex(matches) == FirstFrom(matches, 1)

\* Array.prototype.find: the first match, or undefined.
Find(seq, matches) ==
    LET i == FindIndex(matches) IN IF i = 0 THEN Undefined ELSE seq[i]

Count(matches) == Cardinality({i \in 1 .. Len(matches) : matches[i]})

\* ------------------------------------------------------------ store reads
\* accounts.findIndex((account) => account.name === name) on a store state.
AccountIndex(S, name) ==
    FindIndex([i \in 1 .. Len(S.accounts) |-> S.heap[S.accounts[i]].name = name])

\* getCurrentAccount: the store's own object for the first account of that name.
GetCurrentAccountIn(S, name) ==
    LET i == AccountIndex(S, name) IN IF i = 0 THEN NoRef ELSE S.accounts[i]
GetCurrentAccount(name) == GetCurrentAccountIn(Store, name)

\* hasAccountWithName: !!find(...)
HasAccountWithName(name) == GetCurrentAccount(name) # NoRef

\* getTags
GetTags == tags

\* The account value getCurrentAccount(name) hands out (Undefined when none).
CurrentAccountValue(name) ==
    IF GetCurrentAccount(name) = NoRef THEN Undefined ELSE heap[GetCurrentAccount(name)]

\* ------------------------------------------------------- immer and persist
\* produce() returns a tree that immer freezes deeply when autoFreeze is on.
Produced(S) ==
    [S EXCEPT !.frozen =
        [r \in Refs |->
            IF autoFreeze /\ (\E i \in 1 .. Len(S.accounts) : S.accounts[i] = r)
            THEN TRUE ELSE S.frozen[r]]]

\* The lowest free heap cell: where a new object is put.
Alloc(h) == CHOOSE r \in Refs : h[r] = Free /\ \A q \in 1 .. r - 1 : h[q] # Free

\* JSON.stringify followed by JSON.parse of one value of the store.
JsonDate(t) == IF t.js = "Date" THEN IsoString(t.time) ELSE t
JsonTx(tx) == [tx EXCEPT !.timestamp = JsonDate(tx.timestamp)]
JsonUtxo(u) == [u EXCEPT !.timestamp = JsonDate(u.timestamp)]
JsonAccount(a) ==
    [a EXCEPT !.transactions = [i \in 1 .. Len(a.transactions) |-> JsonTx(a.transactions[i])],
              !.utxos = [i \in 1 .. Len(a.utxos) |-> JsonUtxo(a.utxos[i])]]

\* What persist writes after a set(): the whole state, serialised.
Snapshot(S, t) ==
    [accounts |-> [i \in 1 .. Len(S.accounts) |-> JsonAccount(S.heap[S.accounts[i]])],
     tags |-> t]

\* Objects nothing refers to any more are dropped from the heap, and the live
\* ones are numbered in the order the store and the suspended calls mention
\* them: a reference is an identity, its number means nothing.
RECURSIVE Distinct(_, _, _)
Distinct(occ, i, seen) ==
    IF i > Len(occ) THEN seen
    ELSE IF occ[i] = NoRef \/ (\E j \in 1 .. Len(seen) : seen[j] = occ[i])
    THEN Distinct(occ, i + 1, seen)
    ELSE Distinct(occ, i + 1, Append(seen, occ[i]))
Collect(S, cs) ==
    LET live == Distinct(S.accounts \o [c \in DOMAIN cs |-> cs[c].account], 1, << >>)
        Rank(r) == IF r = NoRef THEN NoRef
                   ELSE CHOOSE n \in 1 .. Len(live) : live[n] = r
    IN [accounts |-> [i \in 1 .. Len(S.accounts) |-> Rank(S.accounts[i])],
        heap |-> [n \in Refs |-> IF n <= Len(live) THEN S.heap[live[n]] ELSE Free],
        frozen |-> [n \in Refs |-> n <= Len(live) /\ S.frozen[live[n]]],
        calls |-> [c \in DOMAIN cs |-> [cs[c] EXCEPT !.account = Rank(@)]]]

\* ------------------------------------------------------- store operations
\* addAccount: set(produce((state) => { state.accounts.push(account) }))
AddAccountIn(S, ref) == Produced([S EXCEPT !.accounts = Append(S.accounts, ref)])

\* A different updateAccount, which appends the account when none has its name.
UpdateAccountUpsert(S, ref) ==
    LET index == AccountIndex(S, S.heap[ref].name)
    IN Produced(IF index # 0 THEN [S EXCEPT !.accounts[index] = ref]
                ELSE [S EXCEPT !.accounts = Append(S.accounts, ref)])

\* updateAccount: replaces the first account of that name; nothing when none.
UpdateAccountIn(S, ref) ==
    LET index == AccountIndex(S, S.heap[ref].name)
    IN Produced(IF index # 0 THEN [S EXCEPT !.accounts[index] = ref] ELSE S)

\* A different deleteAccounts, which drops only the first account.
DeleteAccountsFirstOnly(S) ==
    [S EXCEPT !.accounts = IF S.accounts = << >> THEN << >> ELSE Tail(S.accounts)]

\* deleteAccounts: set(() => ({ accounts: [] }))
DeleteAccountsIn(S) == [S EXCEPT !.accounts = << >>]

\* Different tests for lines 68 and 102, which never take the early return.
TxIsCachedInverted(transaction) == transaction = Null
UtxoIsCachedInverted(utxo) == utxo = Undefined /\ utxo = Null

\* getTx line 68: `transaction !== null`, where find() gave a value or undefined.
TxIsCached(transaction) == transaction # Null

\* getUtxo line 102: `utxo !== undefined && utxo !== null`.
UtxoIsCached(utxo) == utxo # Undefined /\ utxo # Null

\* getTx up to its first await: rejects on a missing account (reading
\* `transactions` of undefined), returns what find() gave when line 68 lets it,
\* and otherwise goes on to ask the indexer.
TxIn(S, ref, txid) ==
    LET txs == S.heap[ref].transactions
    IN Find(txs, [i \in 1 .. Len(txs) |-> txs[i].id = txid])
Looked(found) == IF found = Undefined THEN "miss" ELSE "hit"
GetTxSync(S, ref, txid) ==
    IF ref = NoRef THEN [kind |-> "rejected", value |-> None]
    ELSE LET transaction == TxIn(S, ref, txid)
         IN IF TxIsCached(transaction)
            THEN [kind |-> "returned", value |-> transaction]
            ELSE [kind |-> "await", value |-> None]

\* Array.prototype.push on an array of the account object `ref`: a TypeError
\* when immer has frozen the object, an in-place change of the heap otherwise.
CanPush(S, ref) == ~S.frozen[ref]
PushTransaction(S, ref, tx) ==
    [S EXCEPT !.heap[ref].transactions = Append(@, tx)]
PushUtxo(S, ref, utxo) ==
    [S EXCEPT !.heap[ref].utxos = Append(@, utxo)]

HasKey(u, txid, vout) == u.txid = txid /\ u.vout = vout
Keyed(utxos, txid, vout) == [i \in 1 .. Len(utxos) |-> HasKey(utxos[i], txid, vout)]

\* The index setUtxoLabel takes after it awaited getUtxo: account.utxos.length
\* (0-based in the source; 1-based here, hence the + 1).
IndexAfterFetch(S, ref) == Len(S.heap[ref].utxos) + 1

\* setUtxoLabel's final set(produce(...)): the account is looked up by name in
\* the current state, and utxos[utxoIndex].label is assigned on a copy.  Reading
\* a property of undefined (no such account, no such utxo) throws.
CanSetLabel(S, name, utxoIndex) ==
    /\ AccountIndex(S, name) # 0
    /\ utxoIndex <= Len(S.heap[S.accounts[AccountIndex(S, name)]].utxos)
SetLabelIn(S, name, utxoIndex, label) ==
    LET index == AccountIndex(S, name)
        new == Alloc(S.heap)
    IN Produced([S EXCEPT !.heap[new] = [S.heap[S.accounts[index]] EXCEPT
                                            !.utxos[utxoIndex].label = label],
                          !.frozen[new] = FALSE,
                          !.accounts[index] = new])

\* Number of utxos with key (txid, vout) in the stored account `name`.
KeyCount(S, name, txid, vout) ==
    LET ref == GetCurrentAccountIn(S, name)
    IN IF ref = NoRef THEN 0 ELSE Count(Keyed(S.heap[ref].utxos, txid, vout))

\* ------------------------------------------------------------------ actions
\* The store as persist builds it: empty on a first start, otherwise rehydrated
\* from the snapshot an earlier session left, as objects immer has never seen.
StoredSnapshots ==
    {[accounts |-> << >>, tags |-> << >>],
     [accounts |-> <<JsonAccount(Account("a", SyncedTxs, << >>))>>, tags |-> << >>]}

\* The screens and the root layout before they are mounted.
\* The transaction builder's selected inputs (a Map, in insertion order), and
\* the flow screen: whether it is mounted, the two sums it rendered last, whether
\* its fetch of the transaction flow is pending, and its transactionFlow state.
Builder(inputs, mounted, utxosSelectedValue, utxosTotalValue, fetching, transactionFlow) ==
    [inputs |-> inputs, mounted |-> mounted, utxosSelectedValue |-> utxosSelectedValue,
     utxosTotalValue |-> utxosTotalValue, fetching |-> fetching,
     transactionFlow |-> transactionFlow]
NoBuilder == Builder(<< >>, FALSE, 0, 0, FALSE, Null)
\* The label import screen: the account it was opened for, its two pieces of
\* state, whether importLabels waits for the file picker, and how the import
\* handler that ran last ended ("threw" with the error, or "back" when it
\* reached router.back()), with the import type and the text it ran on and
\* whether it changed the stored accounts.
ImportScreen(mounted, accountId, importType, importContent, picking, outcome, error, ranType, ranContent, changed) ==
    [mounted |-> mounted, accountId |-> accountId, importType |-> importType,
     importContent |-> importContent, picking |-> picking, outcome |-> outcome,
     error |-> error, ranType |-> ranType, ranContent |-> ranContent,
     changed |-> changed]
NoContent == [format |-> "empty", labels |-> << >>]
NoImport ==
    ImportScreen(FALSE, "-", "JSON", NoContent, FALSE, "idle", "-", "-", NoContent, FALSE)
\* The account transactions screen: its `refreshing` and `blockchainHeight`
\* state and the refreshes started since it was mounted.
Screen(mounted, refreshing, blockchainHeight, flows) ==
    [mounted |-> mounted, refreshing |-> refreshing,
     blockchainHeight |-> blockchainHeight, flows |-> flows]
NoScreen == Screen(FALSE, FALSE, 0, << >>)
\* The root layout's inactivity lock: the auth store's values the handler reads
\* (requiresAuth, lockDeltaTime, lockTriggered), appState.current, the stored
\* last-background timestamp, the clock in milliseconds, what the run of
\* handleAppStateChanged that has just finished did, and the time at which the
\* app last entered 'background' without having been 'active' since.
Lock(mounted, requiresAuth, lockDeltaTime, lockTriggered, current, timestamp, now, ran, enteredBackground) ==
    [mounted |-> mounted, requiresAuth |-> requiresAuth,
     lockDeltaTime |-> lockDeltaTime, lockTriggered |-> lockTriggered,
     current |-> current, timestamp |-> timestamp, now |-> now, ran |-> ran,
     enteredBackground |-> enteredBackground]
\* No value is stored under the timestamp key.
NoTimestamp == [stored |-> FALSE, ms |-> 0]
Timestamp(ms) == [stored |-> TRUE, ms |-> ms]
\* One run of handleAppStateChanged.
Ran(nextAppState, previous, elapsedMs, wrote, triggered, before) ==
    [nextAppState |-> nextAppState, previous |-> previous, elapsedMs |-> elapsedMs,
     wrote |-> wrote, triggered |-> triggered, before |-> before]
NoRun == Ran("-", "-", 0, FALSE, FALSE, FALSE)
NoLock == Lock(FALSE, FALSE, 0, FALSE, "active", NoTimestamp, 0, NoRun, NoTimestamp)

\* JavaScript numbers of the zoom gesture hook, as exact fractions n / d in
\* lowest terms with d > 0.
RECURSIVE Gcd(_, _)
Gcd(a, b) == IF b = 0 THEN a ELSE Gcd(b, a % b)
Abs(x) == IF x < 0 THEN -x ELSE x
Rat(n, d) == [n |-> n \div Gcd(Abs(n), d), d |-> d \div Gcd(Abs(n), d)]
Num(i) == Rat(i, 1)
Mul(a, b) == Rat(a.n * b.n, a.d * b.d)
\* a / b for a non-zero b.
Div(a, b) == IF b.n > 0 THEN Rat(a.n * b.d, a.d * b.n) ELSE Rat(-(a.n * b.d), -(a.d * b.n))
Add(a, b) == Rat(a.n * b.d + b.n * a.d, a.d * b.d)
Sub(a, b) == Rat(a.n * b.d - b.n * a.d, a.d * b.d)
Neg(a) == [n |-> -a.n, d |-> a.d]
Less(a, b) == a.n * b.d < b.n * a.d
AtMost(a, b) == a.n * b.d <= b.n * a.d

\* The shared values and the timer reference of useZoomGesture (lines 50-68),
\* the hook's props and scale constants, the timers the hook has pending, and
\* what the handler that ran last did.
Dimensions(width, height) == [width |-> width, height |-> height]
NoEvent == [kind |-> "-", wasZoomedIn |-> FALSE, afterZoomIn |-> FALSE]
NoZoom ==
    [mounted |-> FALSE, MIN_SCALE |-> Num(1), MAX_SCALE |-> Num(1),
     defaultScale |-> Undefined,
     baseScale |-> Num(1), pinchScale |-> Num(1), lastScale |-> Num(1),
     isZoomedIn |-> FALSE,
     containerDimensions |-> Dimensions(0, 0), contentDimensions |-> Dimensions(1, 1),
     translateX |-> Num(0), translateY |-> Num(0),
     lastOffsetX |-> Num(0), lastOffsetY |-> Num(0),
     panStartOffsetX |-> Num(0), panStartOffsetY |-> Num(0),
     handlePanOutsideTimeoutId |-> 0, timers |-> {}, fired |-> 0,
     panning |-> FALSE, gestures |-> 0, ran |-> NoEvent]

Init ==
    /\ persisted \in StoredSnapshots
    /\ accounts = [i \in 1 .. Len(persisted.accounts) |-> i]
    /\ tags = persisted.tags
    /\ heap = [r \in Refs |-> IF r <= Len(persisted.accounts)
                              THEN persisted.accounts[r] ELSE Free]
    /\ frozen = [r \in Refs |-> FALSE]
    /\ autoFreeze \in BOOLEAN
    /\ calls = [c \in 1 .. MaxCalls |-> Idle]
    /\ last = NoLast
    /\ builder = NoBuilder
    /\ labelImport = NoImport
    /\ screen = NoScreen
    /\ lock = NoLock
    /\ zoom = NoZoom

Slots == 1 .. MaxCalls
HasIdleSlot == \E c \in Slots : calls[c].op = "idle"
IdleSlot == CHOOSE c \in Slots : calls[c].op = "idle" /\ \A d \in 1 .. c - 1 : calls[d].op # "idle"
AllIdle == \A c \in Slots : calls[c].op = "idle"

\* Another operation ran: no suspended call is any longer the immediate
\* successor of the call recorded in `last`.
Interleaved(cs) == [c \in Slots |-> [cs[c] EXCEPT !.first = None]]

\* The new state: S2 is the store after the step, cs2 the suspended calls, t2
\* the tags; `wrote` tells whether set() ran, which makes persist write.
CommitStore(S2, cs2, t2, wrote) ==
    LET G == Collect(S2, cs2)
    IN /\ accounts' = G.accounts
       /\ heap' = G.heap
       /\ frozen' = G.frozen
       /\ calls' = G.calls
       /\ tags' = t2
       /\ persisted' = IF wrote THEN Snapshot(S2, t2) ELSE persisted
       /\ autoFreeze' = autoFreeze
Commit(S2, cs2, t2, wrote) ==
    /\ CommitStore(S2, cs2, t2, wrote)
    /\ UNCHANGED <<builder, labelImport, screen, lock, zoom>>

\* The store with a new, unfrozen object holding `value`.
WithObject(S, value) ==
    [S EXCEPT !.heap[Alloc(S.heap)] = value, !.frozen[Alloc(S.heap)] = FALSE]

\* The stored accounts, by value and in order.
Values(S) == [i \in 1 .. Len(S.accounts) |-> S.heap[S.accounts[i]]]

Existed(name) == IF HasAccountWithName(name) THEN "hit" ELSE "miss"

AddAccount(account) ==
    /\ Len(accounts) < MaxAccounts
    /\ Commit(AddAccountIn(WithObject(Store, account), Alloc(heap)),
              Interleaved(calls), tags, TRUE)
    /\ last' = Done("addAccount", account.name, "-", 0, None, Existed(account.name),
                    "resolved", account, 0, TRUE, 0, None)

UpdateAccount(account) ==
    /\ Commit(UpdateAccountIn(WithObject(Store, account), Alloc(heap)),
              Interleaved(calls), tags, TRUE)
    /\ last' = Done("updateAccount", account.name, "-", 0, None, Existed(account.name),
                    "resolved", account, 0,
                    Values(UpdateAccountIn(WithObject(Store, account), Alloc(heap)))
                        # Values(Store),
                    0, None)

DeleteAccounts ==
    /\ Commit(DeleteAccountsIn(Store), Interleaved(calls), tags, TRUE)
    /\ last' = Done("deleteAccounts", "-", "-", 0, None, "-", "resolved",
                    [names |-> {n \in Names : HasAccountWithName(n)}, tags |-> tags],
                    0, accounts # << >>, 0, None)

SetTags(newTags) ==
    /\ Commit(Store, Interleaved(calls), newTags, TRUE)
    /\ last' = Done("setTags", "-", "-", 0, None, "-", "resolved", None, 0, FALSE, 0, None)

\* getTx called by a screen.  It settles at once unless line 68 lets it reach
\* the indexer request, where it suspends.
GetTx(name, txid) ==
    LET ref == GetCurrentAccount(name)
        r == GetTxSync(Store, ref, txid)
    IN IF r.kind = "await"
       THEN /\ HasIdleSlot
            /\ Commit(Store,
                      [Interleaved(calls) EXCEPT ![IdleSlot] =
                          Call("getTx", "oracle", name, txid, 0, None, ref, None,
                               Looked(TxIn(Store, ref, txid)), 0, FALSE, None)],
                      tags, FALSE)
            /\ last' = NoLast
       ELSE /\ Commit(Store, Interleaved(calls), tags, FALSE)
            /\ last' = Done("getTx", name, txid, 0, None,
                            IF r.kind = "rejected" THEN "noaccount"
                            ELSE Looked(TxIn(Store, ref, txid)),
                            IF r.kind = "returned" THEN "resolved" ELSE "rejected",
                            r.value, 0, FALSE, 0, None)

\* The getUtxo call recorded in `last`, when this call follows it directly.
FirstOf(name, txid, vout) ==
    IF AllIdle /\ last.op = "getUtxo" /\ last.name = name /\ last.txid = txid
       /\ last.vout = vout
    THEN [lookup |-> last.lookup, outcome |-> last.outcome, value |-> last.value,
          count |-> last.count]
    ELSE None

\* getUtxo called by a screen: a cached utxo is returned at once; otherwise the
\* call awaits getTx (whose synchronous part runs now).
GetUtxo(name, txid, vout) ==
    LET ref == GetCurrentAccount(name)
        utxo == IF ref = NoRef THEN Undefined
                ELSE Find(heap[ref].utxos, Keyed(heap[ref].utxos, txid, vout))
        r == GetTxSync(Store, ref, txid)
    IN IF ref = NoRef \/ UtxoIsCached(utxo)
       THEN /\ Commit(Store, Interleaved(calls), tags, FALSE)
            /\ last' = Done("getUtxo", name, txid, vout, None,
                            IF ref = NoRef THEN "noaccount" ELSE Looked(utxo),
                            IF ref = NoRef THEN "rejected" ELSE "resolved",
                            IF ref = NoRef THEN None ELSE utxo,
                            0, FALSE, KeyCount(Store, name, txid, vout),
                            FirstOf(name, txid, vout))
       ELSE /\ HasIdleSlot
            /\ Commit(Store,
                      [Interleaved(calls) EXCEPT ![IdleSlot] =
                          Call("getUtxo", IF r.kind = "await" THEN "oracle" ELSE "afterGetTx",
                               name, txid, vout, None, ref, r.value, Looked(utxo), 0, FALSE,
                               FirstOf(name, txid, vout))],
                      tags, FALSE)
            /\ last' = NoLast

\* setUtxoLabel called by a screen: a utxo found by findIndex is labelled at
\* once; otherwise the call awaits getUtxo, which awaits getTx.
SetUtxoLabel(name, txid, vout, label) ==
    LET ref == GetCurrentAccount(name)
        utxoIndex == IF ref = NoRef THEN 0
                     ELSE FindIndex(Keyed(heap[ref].utxos, txid, vout))
        r == GetTxSync(Store, ref, txid)
    IN IF ref = NoRef
       THEN /\ Commit(Store, Interleaved(calls), tags, FALSE)
            /\ last' = Done("setUtxoLabel", name, txid, vout, label, "noaccount",
                            "rejected", None, 0, FALSE, 0, None)
       ELSE IF utxoIndex # 0
       THEN /\ Commit(SetLabelIn(Store, name, utxoIndex, label), Interleaved(calls),
                      tags, TRUE)
            /\ last' = Done("setUtxoLabel", name, txid, vout, label, "hit", "resolved",
                            Undefined, 0,
                            Values(SetLabelIn(Store, name, utxoIndex, label)) # Values(Store),
                            KeyCount(Store, name, txid, vout), None)
       ELSE /\ HasIdleSlot
            /\ Commit(Store,
                      [Interleaved(calls) EXCEPT ![IdleSlot] =
                          Call("setUtxoLabel",
                               IF r.kind = "await" THEN "oracle" ELSE "afterGetTx",
                               name, txid, vout, label, ref, r.value, "miss", 0, FALSE,
                               None)],
                      tags, FALSE)
            /\ last' = NoLast

\* --------------------------------------------------- resuming after an await
\* What one resumption of the suspended call k does to the store S: the store
\* afterwards, the call if it suspends again (Idle if it settled), the record of
\* the settled call (None if it did not settle), and whether set() ran.
Settled(S, S2, k, outcome, value, fetches, wrote) ==
    [S |-> S2, next |-> Idle, wrote |-> wrote,
     done |-> Done(k.op, k.name, k.txid, k.vout, k.label, k.lookup, outcome, value, fetches,
                   k.changed \/ Values(S2) # Values(S),
                   KeyCount(S2, k.name, k.txid, k.vout), k.first)]
Suspended(S, S2, k) ==
    [S |-> S2, wrote |-> TRUE, done |-> None,
     next |-> [k EXCEPT !.changed = @ \/ Values(S2) # Values(S)]]

\* getTx lines 75-93: the indexer answered; the transaction is built, pushed on
\* the account object the call read at its start, and that object is handed to
\* updateAccount.
AfterOracle(S, k) ==
    LET transaction == BuildTransaction(MempoolTx(k.txid))
        S2 == UpdateAccountIn(PushTransaction(S, k.account, transaction), k.account)
    IN IF ~CanPush(S, k.account)
       THEN Settled(S, S, k, "rejected", None, k.fetches + 1, FALSE)
       ELSE IF k.op = "getTx"
       THEN Settled(S, S2, k, "resolved", transaction, k.fetches + 1, TRUE)
       ELSE Suspended(S, S2, [k EXCEPT !.pc = "afterGetTx", !.tx = transaction,
                                       !.fetches = @ + 1])

\* getUtxo lines 106-120: getTx settled with k.tx.  Reading tx.vout of undefined,
\* or .value of a missing output, throws.
AfterGetTx(S, k) ==
    LET readable == k.tx # Undefined /\ k.vout + 1 <= Len(k.tx.vout)
        utxo == BuildUtxo(k.txid, k.vout, k.tx)
        S2 == UpdateAccountIn(PushUtxo(S, k.account, utxo), k.account)
    IN IF ~readable \/ ~CanPush(S, k.account)
       THEN Settled(S, S, k, "rejected", None, k.fetches, FALSE)
       ELSE IF k.op = "getUtxo"
       THEN Settled(S, S2, k, "resolved", utxo, k.fetches, TRUE)
       ELSE Suspended(S, S2, [k EXCEPT !.pc = "afterGetUtxo"])

\* setUtxoLabel lines 131-141: getUtxo resolved.
AfterGetUtxo(S, k) ==
    LET utxoIndex == IndexAfterFetch(S, k.account)
    IN IF CanSetLabel(S, k.name, utxoIndex)
       THEN Settled(S, SetLabelIn(S, k.name, utxoIndex, k.label), k, "resolved",
                    Undefined, k.fetches, TRUE)
       ELSE Settled(S, S, k, "rejected", None, k.fetches, FALSE)

Step(S, k) ==
    CASE k.pc = "oracle" -> AfterOracle(S, k)
      [] k.pc = "afterGetTx" -> AfterGetTx(S, k)
      [] k.pc = "afterGetUtxo" -> AfterGetUtxo(S, k)

\* The event loop resumes the suspended call in slot c.
Resume(c) ==
    /\ calls[c].op # "idle"
    /\ LET out == Step(Store, calls[c])
           others == [d \in Slots |-> IF d = c THEN calls[d]
                                      ELSE [calls[d] EXCEPT !.first = None]]
       IN /\ Commit(out.S, [others EXCEPT ![c] = out.next], tags, out.wrote)
          /\ last' = IF out.done = None THEN NoLast ELSE out.done

\* The store driven by a caller that awaits every call before making the next.
Next ==
    \/ AllIdle /\ \E account \in InputAccounts : AddAccount(account)
    \/ AllIdle /\ \E account \in InputAccounts : UpdateAccount(account)
    \/ AllIdle /\ DeleteAccounts
    \/ AllIdle /\ \E newTags \in TagLists : SetTags(newTags)
    \/ AllIdle /\ \E name \in Names, txid \in TxIds : GetTx(name, txid)
    \/ AllIdle /\ \E name \in Names, txid \in TxIds, vout \in Vouts :
          GetUtxo(name, txid, vout)
    \/ AllIdle /\ \E name \in Names, txid \in TxIds, vout \in Vouts, label \in Labels :
          SetUtxoLabel(name, txid, vout, label)
    \/ \E c \in Slots : Resume(c)

Spec == Init /\ [][Next]_vars

\* The store driven by callers that do not wait: calls are made while others are
\* suspended, and the event loop resumes the suspended ones in any order.  One
\* account name is enough for calls to meet on the same account and key.
ConcNames == {"a"}
ConcAccounts == {account \in InputAccounts : account.name \in ConcNames}

NextConc ==
    \/ \E account \in ConcAccounts : UpdateAccount(account)
    \/ \E name \in ConcNames, txid \in TxIds, vout \in Vouts : GetUtxo(name, txid, vout)
    \/ \E name \in ConcNames, txid \in TxIds, vout \in Vouts, label \in Labels :
          SetUtxoLabel(name, txid, vout, label)
    \/ \E c \in Slots : Resume(c)

SpecConc == Init /\ [][NextConc]_vars

\* ------------------------------------------------------------------ claims
StoredRefs == {accounts[i] : i \in 1 .. Len(accounts)}
OutputExists(txid, vout) == vout + 1 <= Len(MempoolTx(txid).vout)
\* What getUtxo finds in the stored account for a key (Undefined when nothing).
StoredUtxo(name, txid, vout) ==
    IF HasAccountWithName(name)
    THEN LET utxos == heap[GetCurrentAccount(name)].utxos
         IN Find(utxos, Keyed(utxos, txid, vout))
    ELSE Undefined
InSeq(x, seq) == \E i \in 1 .. Len(seq) : seq[i] = x

\* C1: right after addAccount(A), getCurrentAccount(A.name) gives an account
\* equal to A, whatever the store held before.
C1_AddThenGet ==
    last.op = "addAccount" => CurrentAccountValue(last.name) = last.value

\* C2: no two stored accounts have the same name, and addAccount of a name that
\* is already present leaves the collection unchanged.
C2_UniqueNames ==
    /\ \A i, j \in 1 .. Len(accounts) :
          i # j => heap[accounts[i]].name # heap[accounts[j]].name
    /\ (last.op = "addAccount" /\ last.lookup = "hit") => ~last.changed

\* C3: getTx for an existing account that does not hold the transaction asks the
\* indexer exactly once, resolves with the transaction built from the answer,
\* and the stored account then holds that transaction.
C3_GetTxFetches ==
    (last.op = "getTx" /\ last.lookup = "miss") =>
        /\ last.fetches = 1
        /\ last.outcome = "resolved"
        /\ last.value = BuildTransaction(MempoolTx(last.txid))
        /\ HasAccountWithName(last.name)
        /\ InSeq(last.value, CurrentAccountValue(last.name).transactions)

\* C4: transaction ids are unique within every stored account, and getTx for a
\* transaction the account holds resolves with that transaction, asks the
\* indexer nothing and leaves the stored accounts as they were.
C4_TxCached ==
    /\ \A r \in StoredRefs : \A i, j \in 1 .. Len(heap[r].transactions) :
          i # j => heap[r].transactions[i].id # heap[r].transactions[j].id
    /\ (last.op = "getTx" /\ last.lookup = "hit") =>
          /\ last.outcome = "resolved"
          /\ last.fetches = 0
          /\ ~last.changed
          /\ last.value.id = last.txid
          /\ InSeq(last.value, CurrentAccountValue(last.name).transactions)
C4_Witness ==
    last.op = "getTx" /\ last.lookup = "hit" /\ last.outcome = "resolved"
    /\ Len(accounts) = MaxAccounts

\* C5: getUtxo for an existing account that does not hold the utxo resolves with
\* a utxo carrying the value and address of output `vout` of the transaction,
\* and the stored account then holds that utxo.
C5_GetUtxoFetches ==
    (last.op = "getUtxo" /\ last.lookup = "miss" /\ OutputExists(last.txid, last.vout)) =>
        /\ last.outcome = "resolved"
        /\ last.value.value = MempoolTx(last.txid).vout[last.vout + 1].value
        /\ last.value.addressTo
              = MempoolTx(last.txid).vout[last.vout + 1].scriptpubkey_address
        /\ StoredUtxo(last.name, last.txid, last.vout) = last.value

\* C6: a getUtxo call made right after the same getUtxo call settled settles the
\* same way, with a utxo of equal value, and leaves as many utxos for the key
\* in the account as the first call left.
C6_GetUtxoIdempotent ==
    (last.op = "getUtxo" /\ last.first # None) =>
        /\ last.outcome = last.first.outcome
        /\ last.outcome = "resolved" => last.value.value = last.first.value.value
        /\ last.count = last.first.count
C6_Witness ==
    /\ last.op = "getUtxo" /\ last.first # None
    /\ last.first.lookup = "miss" /\ last.first.outcome = "resolved"
    /\ last.lookup = "hit" /\ last.outcome = "resolved" /\ last.count = 1

C8_LabelThenGet ==
    (last.op = "setUtxoLabel" /\ last.lookup \in {"hit", "miss"}
     /\ OutputExists(last.txid, last.vout)) =>
        /\ UtxoIsCached(StoredUtxo(last.name, last.txid, last.vout))
        /\ StoredUtxo(last.name, last.txid, last.vout).label = last.label

\* C9: updateAccount(a) puts a in the place of the first stored account named
\* a.name and changes nothing else; with no such account it changes nothing.
C9_UpdateFrame ==
    [][\A account \in InputAccounts :
          UpdateAccount(account) =>
              LET index == AccountIndex(Store, account.name)
              IN Values(Store)' = IF index = 0 THEN Values(Store)
                                  ELSE [Values(Store) EXCEPT ![index] = account]]_vars
C9_Witness ==
    /\ last.op = "updateAccount" /\ last.lookup = "hit" /\ last.changed
    /\ Len(accounts) = MaxAccounts
    /\ \E i \in 1 .. Len(accounts) : heap[accounts[i]].name # last.name

\* C10: after deleteAccounts, getCurrentAccount finds nothing and
\* hasAccountWithName is false for every name that existed, and the tags are
\* the tags from before.
C10_DeleteAll ==
    last.op = "deleteAccounts" =>
        /\ \A n \in last.value.names :
              CurrentAccountValue(n) = Undefined /\ ~HasAccountWithName(n)
        /\ GetTags = last.value.tags
C10_Witness ==
    last.op = "deleteAccounts" /\ last.value.names = Names /\ GetTags # << >>

\* ------------------------------------------------------------- syncWallet
\* What getWalletData hands back after a sync: the wallet's transactions, utxos
\* and summary.
WalletDatas ==
    {[transactions |-> SyncedTxs, utxos |-> SyncedUtxos, summary |-> [balance |-> 8]],
     [transactions |-> << >>, utxos |-> << >>, summary |-> [balance |-> 0]]}

\* How an awaited call of the wallet library settles: resolved (with `data`,
\* for getWalletData) or rejected.
LibraryResults == [ok : BOOLEAN, data : WalletDatas]

\* { ...account, transactions, utxos, summary }
SyncedAccount(account, data) ==
    [account EXCEPT !.transactions = data.transactions,
                    !.utxos = data.utxos,
                    !.summary = data.summary]

\* A settled syncWallet call records in `first` the argument object as it is
\* when the call settles.
SyncSettled(S, S2, k, outcome, value) ==
    [Settled(S, S2, k, outcome, value, k.fetches, FALSE)
        EXCEPT !.done.first = S2.heap[k.account]]

\* A different end of syncWallet, which writes the wallet data into the
\* argument object instead of a copy.
AfterWalletDataInPlace(S, k, data) ==
    LET S2 == [S EXCEPT !.heap[k.account] = SyncedAccount(S.heap[k.account], data)]
    IN SyncSettled(S, S2, k, "resolved", S2.heap[k.account])

\* syncWallet line 178: getWalletData resolved; the call resolves with a copy.
AfterWalletData(S, k, data) ==
    SyncSettled(S, S, k, "resolved", SyncedAccount(S.heap[k.account], data))

\* A different handling of a failed await, which runs the sync once more.
AfterLibraryFailedRetry(S, k) ==
    IF k.fetches < 2
    THEN Suspended(S, S, [k EXCEPT !.pc = "syncing", !.fetches = @ + 1])
    ELSE SyncSettled(S, S, k, "rejected", None)

\* syncWallet lines 167 and 173: an awaited library call rejected; with no
\* try/catch around it the call rejects.
AfterLibraryFailed(S, k) == SyncSettled(S, S, k, "rejected", None)

\* syncWallet lines 167-173: the external sync resolved; getWalletData is called.
AfterSync(S, k) == Suspended(S, S, [k EXCEPT !.pc = "walletData"])

SyncStep(S, k, result) ==
    IF ~result.ok THEN AfterLibraryFailed(S, k)
    ELSE IF k.pc = "syncing" THEN AfterSync(S, k)
    ELSE AfterWalletData(S, k, result.data)

\* syncWallet(wallet, account) called with the object `ref`: lines 162-171, up to
\* the await of the external sync.  `fetches` counts the calls of that sync.
StartSync(S, ref) ==
    /\ HasIdleSlot
    /\ Commit(S, [Interleaved(calls) EXCEPT ![IdleSlot] =
                     Call("syncWallet", "syncing", S.heap[ref].name, "-", 0, None, ref,
                          None, "-", 1, FALSE, None)],
              tags, FALSE)
    /\ last' = NoLast

\* A caller syncs the account object it read from the store.
SyncWalletStored(name) ==
    /\ HasAccountWithName(name)
    /\ StartSync(Store, GetCurrentAccount(name))

\* A caller syncs an account object of its own.
SyncWalletNew(account) ==
    StartSync(WithObject(Store, account), Alloc(heap))

\* The event loop resumes the syncWallet call in slot c; the library call it
\* awaited settled with `result`.
ResumeSync(c, result) ==
    /\ calls[c].op = "syncWallet"
    /\ LET out == SyncStep(Store, calls[c], result)
       IN /\ Commit(out.S, [calls EXCEPT ![c] = out.next], tags, FALSE)
          /\ last' = IF out.done = None THEN NoLast ELSE out.done

\* The store with one syncWallet call at a time, while other callers add
\* accounts and set tags between its steps.
NextSync ==
    \/ \E account \in ConcAccounts : AddAccount(account)
    \/ \E newTags \in TagLists : SetTags(newTags)
    \/ AllIdle /\ \E name \in ConcNames : SyncWalletStored(name)
    \/ AllIdle /\ \E account \in ConcAccounts : SyncWalletNew(account)
    \/ \E c \in Slots, result \in LibraryResults : ResumeSync(c, result)

SpecSync == Init /\ [][NextSync]_vars

\* C11: a syncWallet call that resolves gives the argument with transactions,
\* utxos and summary replaced by the wallet's and every other field as it was;
\* no step of the call changes the argument object, the stored accounts, the
\* tags or the persisted snapshot.
C11_SyncCopies ==
    [][\A c \in Slots, result \in LibraryResults :
          ResumeSync(c, result) =>
              LET argument == heap[calls[c].account]
              IN /\ Values(Store)' = Values(Store)
                 /\ tags' = tags
                 /\ persisted' = persisted
                 /\ calls'[c].op = "syncWallet" => heap'[calls'[c].account] = argument
                 /\ (last'.op = "syncWallet" /\ last'.outcome = "resolved") =>
                       /\ last'.first = argument
                       /\ last'.value = SyncedAccount(argument, result.data)
                       /\ last'.value.name = argument.name]_vars
C11_Witness ==
    /\ last.op = "syncWallet" /\ last.outcome = "resolved"
    /\ HasAccountWithName(last.name)
    /\ last.value # CurrentAccountValue(last.name)
    /\ last.first = CurrentAccountValue(last.name)

\* C12: a syncWallet call whose sync or wallet-data read fails rejects after a
\* single call of the sync, and leaves the stored accounts, the tags and the
\* persisted snapshot as they were.
C12_SyncFails ==
    [][\A c \in Slots, result \in LibraryResults :
          (ResumeSync(c, result) /\ ~result.ok) =>
              /\ last'.op = "syncWallet" /\ last'.outcome = "rejected"
              /\ last'.fetches = 1
              /\ calls'[c] = Idle
              /\ Values(Store)' = Values(Store)
              /\ tags' = tags
              /\ persisted' = persisted]_vars
C12_Witness ==
    /\ last.op = "syncWallet" /\ last.outcome = "rejected"
    /\ accounts # << >> /\ tags # << >>

\* ------------------------------------------------------------ rehydration
\* What persist's rehydration reads back from a stored snapshot: JSON.parse of
\* the stored text, with no reviver, so what was stored as a string stays one.
Rehydrated(snapshot) == [accounts |-> snapshot.accounts, tags |-> snapshot.tags]

\* C13: after every store call that settled, reloading the persisted snapshot
\* gives an account list and a tag list equal to the ones in memory.
C13_RoundTrip ==
    (last.op # "none" /\ last.outcome = "resolved") =>
        Rehydrated(persisted) = [accounts |-> Values(Store), tags |-> tags]

\* ------------------------------------------------------------ label import
\* A BIP-329 record that labels the output `vout` of transaction `txid`.
LabelRecord(txid, vout, label) ==
    [type |-> "output", ref |-> [txid |-> txid, vout |-> vout], label |-> label]
LabelLists ==
    {<<LabelRecord("t1", 0, Text("coffee"))>>,
     <<LabelRecord("t1", 0, Text("coffee")), LabelRecord("t0", 1, Text("rent"))>>}

\* A text from the clipboard or a file: the JSON or the CSV form of a list of
\* label records, or a text that is neither.
JsonText(labels) == [format |-> "json", labels |-> labels]
CsvText(labels) == [format |-> "csv", labels |-> labels]
Garbage == [format |-> "garbage", labels |-> << >>]
Contents == {JsonText(l) : l \in LabelLists} \cup {CsvText(l) : l \in LabelLists} \cup {Garbage}

\* JSON.parse(text): the value the text encodes; throws SyntaxError on a text
\* that is not JSON.
JsonParse(text) ==
    IF text.format = "json" THEN [threw |-> FALSE, value |-> text.labels]
    ELSE [threw |-> TRUE, value |-> << >>]

\* CSVtoLabels(text): the records of a BIP-329 CSV text; throws on a text that
\* is not such a CSV.
CSVtoLabels(text) ==
    IF text.format = "csv" THEN [threw |-> FALSE, value |-> text.labels]
    ELSE [threw |-> TRUE, value |-> << >>]

\* importType === 'JSON' ? JSON.parse(content) : CSVtoLabels(content)
ParseLabels(importType, content) ==
    IF importType = "JSON" THEN JsonParse(content) ELSE CSVtoLabels(content)

\* The members of the object the store is created with.
StoreMembers ==
    {"accounts", "tags", "getTags", "setTags", "getTx", "getUtxo", "setUtxoLabel",
     "getCurrentAccount", "hasAccountWithName", "loadWalletFromDescriptor",
     "syncWallet", "addAccount", "updateAccount", "deleteAccounts"}

\* state.importLabels as the screen's selector reads it: undefined for a member
\* the store does not have.
ImportLabelsToAccount ==
    IF "importLabels" \in StoreMembers THEN [js |-> "function"] ELSE Undefined

\* The merge the store's importLabels is to perform: every record whose output
\* the account holds sets that utxo's label.
RECURSIVE MergeLabels(_, _, _, _)
MergeLabels(S, name, labels, i) ==
    IF i > Len(labels) THEN S
    ELSE LET ref == GetCurrentAccountIn(S, name)
             at == IF ref = NoRef THEN 0
                   ELSE FindIndex(Keyed(S.heap[ref].utxos, labels[i].ref.txid,
                                        labels[i].ref.vout))
         IN MergeLabels(IF at = 0 THEN S ELSE SetLabelIn(S, name, at, labels[i].label),
                        name, labels, i + 1)

\* A different handler body, which catches a failed parse and goes back.
ImportRunGuarded(S, accountId, importType, content) ==
    LET parsed == ParseLabels(importType, content)
    IN IF parsed.threw \/ ImportLabelsToAccount = Undefined
       THEN [outcome |-> "back", error |-> "-", S |-> S]
       ELSE [outcome |-> "back", error |-> "-",
             S |-> MergeLabels(S, accountId, parsed.value, 1)]

\* Lines 35-38 and 44-46: parse, hand the records to the store, go back.  A
\* throw of the parser, or of calling what is not a function, ends the handler
\* there.
ImportRun(S, accountId, importType, content) ==
    LET parsed == ParseLabels(importType, content)
    IN IF parsed.threw
       THEN [outcome |-> "threw", error |-> "SyntaxError", S |-> S]
       ELSE IF ImportLabelsToAccount = Undefined
       THEN [outcome |-> "threw", error |-> "TypeError", S |-> S]
       ELSE [outcome |-> "back", error |-> "-",
             S |-> MergeLabels(S, accountId, parsed.value, 1)]

\* The handler ran on `content`: the store and the screen afterwards.
ImportDone(content) ==
    LET run == ImportRun(Store, labelImport.accountId, labelImport.importType, content)
    IN /\ CommitStore(run.S, calls, tags, run.S # Store)
       /\ last' = last
       /\ labelImport' = [labelImport EXCEPT !.mounted = run.outcome # "back",
                                             !.picking = FALSE,
                                             !.outcome = run.outcome,
                                             !.error = run.error,
                                             !.ranType = labelImport.importType,
                                             !.ranContent = content,
                                             !.changed = Values(run.S) # Values(Store)]
       /\ UNCHANGED <<builder, screen, lock, zoom>>

\* The screen is opened for an account; line 32 redirects when there is none.
MountImport(id) ==
    /\ ~labelImport.mounted
    /\ HasAccountWithName(id)
    /\ labelImport' = [NoImport EXCEPT !.mounted = TRUE, !.accountId = id]
    /\ UNCHANGED <<storeVars, builder, screen, lock, zoom>>

SetImportType(type) ==
    /\ labelImport.mounted /\ ~labelImport.picking
    /\ labelImport' = [labelImport EXCEPT !.importType = type]
    /\ UNCHANGED <<storeVars, builder, screen, lock, zoom>>

\* PASTE FROM CLIPBOARD: setImportContent(text || '')
PasteFromClipboard(text) ==
    /\ labelImport.mounted /\ ~labelImport.picking
    /\ labelImport' = [labelImport EXCEPT !.importContent = text]
    /\ UNCHANGED <<storeVars, builder, screen, lock, zoom>>

\* IMPORT FROM CLIPBOARD, a button shown while importContent is not empty.
ImportLabelsFromClipboard ==
    /\ labelImport.mounted /\ ~labelImport.picking
    /\ labelImport.importContent # NoContent
    /\ ImportDone(labelImport.importContent)

\* IMPORT FROM <type>: importLabels up to its await of the file picker.
ImportLabels ==
    /\ labelImport.mounted /\ ~labelImport.picking
    /\ labelImport' = [labelImport EXCEPT !.picking = TRUE]
    /\ UNCHANGED <<storeVars, builder, screen, lock, zoom>>

\* The file picker resolved with the content of the chosen file.
FilePicked(fileContent) ==
    /\ labelImport.mounted /\ labelImport.picking
    /\ ImportDone(fileContent)

\* Accounts are added before the screen is first opened; then the user works
\* the screen.
NextImport ==
    \/ labelImport = NoImport /\ \E account \in ConcAccounts : AddAccount(account)
    \/ \E id \in Names : MountImport(id)
    \/ \E type \in {"JSON", "CSV"} : SetImportType(type)
    \/ \E text \in Contents : PasteFromClipboard(text)
    \/ ImportLabelsFromClipboard
    \/ ImportLabels
    \/ \E fileContent \in Contents : FilePicked(fileContent)

SpecImport == Init /\ [][NextImport]_vars

\* Whether a text is well formed for an import type.
WellFormed(importType, content) ==
    content.format = (IF importType = "JSON" THEN "json" ELSE "csv")

\* C15: after an import handler ran on a well-formed text, every record of the
\* text labels its output: the account's utxo for the key carries the label.
C15_ImportMerges ==
    (labelImport.outcome # "idle"
     /\ WellFormed(labelImport.ranType, labelImport.ranContent)) =>
        \A i \in 1 .. Len(labelImport.ranContent.labels) :
            LET record == labelImport.ranContent.labels[i]
                utxo == StoredUtxo(labelImport.accountId, record.ref.txid, record.ref.vout)
            IN UtxoIsCached(utxo) /\ utxo.label = record.label

\* C16: an import handler that ran on a text malformed for the import type
\* threw; it changed nothing in the stored accounts and did not go back.
C16_MalformedThrows ==
    (labelImport.outcome # "idle"
     /\ ~WellFormed(labelImport.ranType, labelImport.ranContent)) =>
        /\ labelImport.outcome = "threw"
        /\ ~labelImport.changed
        /\ labelImport.mounted
C16_Witness ==
    /\ labelImport.outcome = "threw" /\ labelImport.error = "SyntaxError"
    /\ labelImport.ranType = "CSV" /\ labelImport.ranContent.format = "json"
    /\ HasAccountWithName(labelImport.accountId)
    /\ CurrentAccountValue(labelImport.accountId).utxos # << >>

\* ----------------------------------------------- transaction builder and flow
\* The utxos of the account the send flow is open for: three, 150,000 sats.
FlowUtxo(txid, vout, value) ==
    [txid |-> txid, vout |-> vout, value |-> value, timestamp |-> DateOf(1700),
     addressTo |-> "bc1x", keychain |-> "external", label |-> Undefined]
AccountUtxos ==
    <<FlowUtxo("t1", 0, 50000), FlowUtxo("t1", 1, 70000), FlowUtxo("t2", 0, 30000)>>
UtxoPool == {AccountUtxos[i] : i \in 1 .. Len(AccountUtxos)}

\* utxos.reduce without an initial value, as it would sum: from the second on.
RECURSIVE UtxosValueFrom(_, _)
UtxosValueFrom(utxos, i) ==
    IF i > Len(utxos) THEN 0 ELSE utxos[i].value + UtxosValueFrom(utxos, i + 1)
UtxosValueNoInitial(utxos) == UtxosValueFrom(utxos, 2)

\* utxosValue: utxos.reduce((acc, utxo) => acc + utxo.value, 0)
UtxosValue(utxos) == UtxosValueFrom(utxos, 1)

\* addInput(utxo): the Map entry for the utxo's key is set; a new key goes last.
AddInputIn(inputs, utxo) ==
    LET at == FindIndex(Keyed(inputs, utxo.txid, utxo.vout))
    IN IF at = 0 THEN Append(inputs, utxo) ELSE [inputs EXCEPT ![at] = utxo]

\* removeInput(utxo): the Map entry for the utxo's key is deleted.
RemoveInputIn(inputs, utxo) ==
    SelectSeq(inputs, LAMBDA u : ~HasKey(u, utxo.txid, utxo.vout))

\* getInputs(): the selected utxos.
GetInputs(inputs) == inputs

\* getTransactionFlow(): the aggregate view of the selection; the size estimate
\* is the wallet library's and is left out.
GetTransactionFlow(inputs) ==
    [inputs |-> GetInputs(inputs), outputs |-> << >>,
     totalValue |-> UtxosValueFrom(GetInputs(inputs), 1)]

\* What the screen shows after a render with the builder's inputs: the two
\* useMemo sums, recomputed because the store state they depend on is new.
Rendered(b, inputs) ==
    [b EXCEPT !.inputs = inputs,
              !.utxosSelectedValue = IF b.mounted THEN UtxosValue(GetInputs(inputs)) ELSE @,
              !.utxosTotalValue = IF b.mounted THEN UtxosValue(AccountUtxos) ELSE @]

AddInput(utxo) ==
    /\ builder' = Rendered(builder, AddInputIn(builder.inputs, utxo))
    /\ UNCHANGED <<storeVars, labelImport, screen, lock, zoom>>

RemoveInput(utxo) ==
    /\ builder' = Rendered(builder, RemoveInputIn(builder.inputs, utxo))
    /\ UNCHANGED <<storeVars, labelImport, screen, lock, zoom>>

\* The flow screen is mounted: first render, and the effect of lines 96-112
\* starts fetchTransactionFlow, which awaits getTransactionFlow().
MountFlow ==
    /\ ~builder.mounted
    /\ builder' = Rendered([builder EXCEPT !.mounted = TRUE, !.fetching = TRUE,
                                            !.transactionFlow = Null],
                           builder.inputs)
    /\ UNCHANGED <<storeVars, labelImport, screen, lock, zoom>>

\* getTransactionFlow() settled: setTransactionFlow(flow), or the catch logs.
FlowSettled(ok) ==
    /\ builder.mounted /\ builder.fetching
    /\ builder' = [builder EXCEPT !.fetching = FALSE,
                                  !.transactionFlow =
                                      IF ok THEN GetTransactionFlow(builder.inputs) ELSE @]
    /\ UNCHANGED <<storeVars, labelImport, screen, lock, zoom>>

\* The user leaves the flow screen; its state is dropped, the selection stays.
UnmountFlow ==
    /\ builder.mounted
    /\ builder' = [NoBuilder EXCEPT !.inputs = builder.inputs]
    /\ UNCHANGED <<storeVars, labelImport, screen, lock, zoom>>

NextBuilder ==
    \/ \E utxo \in UtxoPool : AddInput(utxo)
    \/ \E utxo \in UtxoPool : RemoveInput(utxo)
    \/ MountFlow
    \/ \E ok \in BOOLEAN : FlowSettled(ok)
    \/ UnmountFlow

SpecBuilder == Init /\ [][NextBuilder]_vars

\* The utxos of the account whose key is selected, and the sum of their values.
SelectedSet == {u \in UtxoPool : \E i \in 1 .. Len(builder.inputs) :
                                    HasKey(builder.inputs[i], u.txid, u.vout)}
RECURSIVE SumOfValues(_)
SumOfValues(set) ==
    IF set = {} THEN 0
    ELSE LET u == CHOOSE v \in set : TRUE IN u.value + SumOfValues(set \ {u})

TipHeight == 800

\* One run of refresh(): what started it ("mount", "icon" or "pull"), the
\* awaited calls it has started, in order, how those that settled have settled,
\* and whether the run is still going.
Flow(trigger, trace, settled, status) ==
    [trigger |-> trigger, trace |-> trace, settled |-> settled, status |-> status]

\* refresh() up to its first await: refreshBlockchainHeight calls
\* getBlockchainHeight (lines 69-76).
StartFlow(trigger) == Flow(trigger, <<"getBlockchainHeight">>, << >>, "running")

\* The awaited call that follows `step` when it resolved (lines 76-96); "-"
\* after the last.
StepAfter(step) ==
    CASE step = "getBlockchainHeight" -> "createExternalDescriptor"
      [] step = "createExternalDescriptor" -> "createInternalDescriptor"
      [] step = "createInternalDescriptor" -> "loadWalletFromDescriptor"
      [] step = "loadWalletFromDescriptor" -> "syncWallet"
      [] step = "syncWallet" -> "populateWalletData"
      [] step = "populateWalletData" -> "storeAccount"
      [] step = "storeAccount" -> "-"

\* The call a running refresh waits for.
Awaited(flow) == flow.trace[Len(flow.trace)]

\* The awaited call resolved: the next one is started, or refresh() resolves.
AfterResolved(flow) ==
    IF StepAfter(Awaited(flow)) = "-"
    THEN [flow EXCEPT !.settled = Append(@, "ok"), !.status = "resolved"]
    ELSE [flow EXCEPT !.settled = Append(@, "ok"),
                      !.trace = Append(@, StepAfter(Awaited(flow)))]

\* A different handling of a rejected call, which logs it and goes on.
AfterRejectedGoOn(flow) ==
    IF StepAfter(Awaited(flow)) = "-"
    THEN [flow EXCEPT !.settled = Append(@, "fail"), !.status = "resolved"]
    ELSE [flow EXCEPT !.settled = Append(@, "fail"),
                      !.trace = Append(@, StepAfter(Awaited(flow)))]

\* The awaited call rejected: with no try/catch in refresh, refreshAccount or
\* refreshBlockchainHeight, refresh() rejects there.
AfterRejected(flow) ==
    [flow EXCEPT !.settled = Append(@, "fail"), !.status = "rejected"]

Running(flows) == {i \in 1 .. Len(flows) : flows[i].status = "running"}

\* The screen is mounted: the effect of lines 61-67 runs refresh().
MountScreen ==
    /\ ~screen.mounted
    /\ screen' = Screen(TRUE, FALSE, 0, <<StartFlow("mount")>>)
    /\ UNCHANGED <<storeVars, builder, labelImport, lock, zoom>>

\* onRefresh (lines 49-55), from the refresh icon or from the pull of the
\* RefreshControl, which does not fire while it shows `refreshing`.
OnRefresh(trigger) ==
    /\ screen.mounted
    /\ Len(screen.flows) < MaxRefreshes
    /\ trigger = "pull" => ~screen.refreshing
    /\ screen' = [screen EXCEPT !.refreshing = TRUE,
                                !.flows = Append(@, StartFlow(trigger))]
    /\ UNCHANGED <<storeVars, builder, labelImport, lock, zoom>>

\* The call the i-th refresh waits for settled.  A resolved
\* getBlockchainHeight is followed by setBlockchainHeight (line 78); when a
\* refresh started by onRefresh resolves, line 53 runs setRefreshing(false).
StepSettled(i, ok) ==
    /\ screen.mounted
    /\ i \in Running(screen.flows)
    /\ LET flow == screen.flows[i]
           after == IF ok THEN AfterResolved(flow) ELSE AfterRejected(flow)
       IN screen' = [screen EXCEPT
              !.flows[i] = after,
              !.blockchainHeight =
                  IF ok /\ Awaited(flow) = "getBlockchainHeight" THEN TipHeight ELSE @,
              !.refreshing =
                  IF after.status = "resolved" /\ flow.trigger # "mount" THEN FALSE ELSE @]
    /\ UNCHANGED <<storeVars, builder, labelImport, lock, zoom>>

NextScreen ==
    \/ MountScreen
    \/ \E trigger \in {"icon", "pull"} : OnRefresh(trigger)
    \/ \E i \in 1 .. MaxRefreshes, ok \in BOOLEAN : StepSettled(i, ok)

SpecScreen == Init /\ [][NextScreen]_vars

\* C17: at most one refresh, and so at most one wallet sync, is in flight at
\* any time.
C17_OneRefresh == Cardinality(Running(screen.flows)) <= 1

\* Refreshes started by the user, and those of them still in flight.
UserRunning ==
    {i \in Running(screen.flows) : screen.flows[i].trigger # "mount"}

\* C18: `refreshing` is true while a refresh started by the user is in flight,
\* and false once none is: it does not stay true after a refresh failed.
C18_RefreshingTracks ==
    /\ UserRunning # {} => screen.refreshing
    /\ (screen.mounted /\ UserRunning = {}) => ~screen.refreshing

\* The order of the awaited calls of one refresh.
RefreshOrder ==
    <<"getBlockchainHeight", "createExternalDescriptor", "createInternalDescriptor",
      "loadWalletFromDescriptor", "syncWallet", "populateWalletData", "storeAccount">>

\* C19: every refresh starts its calls in the given order, each one only after
\* the one before resolved; after a call rejected none is started, so
\* storeAccount is not called when the sync failed.
C19_StepsInOrder ==
    \A i \in 1 .. Len(screen.flows) :
        LET flow == screen.flows[i]
            n == Len(flow.trace)
        IN /\ n <= Len(RefreshOrder) /\ flow.trace = SubSeq(RefreshOrder, 1, n)
           /\ Len(flow.settled) = IF flow.status = "running" THEN n - 1 ELSE n
           /\ \A j \in 1 .. n - 1 : flow.settled[j] = "ok"
           /\ flow.status = "resolved" => (n = Len(RefreshOrder) /\ flow.settled[n] = "ok")
           /\ flow.status = "rejected" => flow.settled[n] = "fail"
C19_Witness ==
    \E i, j \in 1 .. Len(screen.flows) :
        /\ screen.flows[i].status = "rejected"
        /\ Awaited(screen.flows[i]) = "syncWallet"
        /\ screen.flows[j].status = "resolved"

\* ---------------------------------------------------------------------------
\* The root layout's inactivity lock (RootLayout, handleAppStateChanged).

\* Date.now() is in milliseconds, lockDeltaTime in seconds (line 55).
MsPerSecond == 1000
\* The clock readings: half seconds up to MaxSeconds.
Clock == {h * (MsPerSecond \div 2) : h \in 0 .. 2 * MaxSeconds}
AppStates == {"active", "background", "inactive"}
LockDeltaTimes == 0 .. MaxSeconds
Timestamps == {NoTimestamp} \cup {Timestamp(ms) : ms \in Clock}

\* `inactivityStartTime || 0` (line 55): a missing value and 0 both give 0.
OrZero(timestamp) == IF timestamp.stored /\ timestamp.ms # 0 THEN timestamp.ms ELSE 0

\* Date.now() - (inactivityStartTime || 0), in milliseconds (line 55).
ElapsedMs(L) == L.now - OrZero(L.timestamp)

\* The comparison of line 57 with `>` for `>=`.
InactiveTooLongStrict(L) == ElapsedMs(L) > L.lockDeltaTime * MsPerSecond
\* elapsed >= authStore.lockDeltaTime (lines 55-57), elapsed being the
\* milliseconds divided by 1000.
InactiveTooLong(L) == ElapsedMs(L) >= L.lockDeltaTime * MsPerSecond

\* appState.current.match(/background/) (line 51).
MatchesBackground(current) == current = "background"

\* handleAppStateChanged (lines 46-61).
HandleAppStateChanged(L, nextAppState) ==
    IF nextAppState = "background" /\ L.requiresAuth
    THEN [L EXCEPT !.timestamp = Timestamp(L.now),
                   !.current = nextAppState,
                   !.ran = Ran(nextAppState, L.current, ElapsedMs(L), TRUE, FALSE,
                               L.lockTriggered)]
    ELSE IF nextAppState = "active" /\ MatchesBackground(L.current) /\ L.requiresAuth
    THEN [L EXCEPT !.lockTriggered = IF InactiveTooLong(L) THEN TRUE ELSE @,
                   !.current = nextAppState,
                   !.ran = Ran(nextAppState, L.current, ElapsedMs(L), FALSE,
                               InactiveTooLong(L), L.lockTriggered)]
    ELSE [L EXCEPT !.current = nextAppState,
                   !.ran = Ran(nextAppState, L.current, ElapsedMs(L), FALSE, FALSE,
                               L.lockTriggered)]

\* RootLayout is rendered and its effect runs (lines 22-44): the handler keeps
\* the auth store's values of this render, appState.current starts as the
\* app's state, the lock is triggered, and the handler is subscribed.  The
\* timestamp key holds what an earlier run of the app left there.
MountRoot(requiresAuth, lockDeltaTime, current, timestamp, now) ==
    /\ ~lock.mounted
    /\ lock' = Lock(TRUE, requiresAuth, lockDeltaTime, TRUE, current, timestamp, now,
                    NoRun, NoTimestamp)
    /\ UNCHANGED <<storeVars, builder, labelImport, screen, zoom>>

\* Time passes.
Tick ==
    /\ lock.mounted
    /\ lock.now + MsPerSecond \div 2 \in Clock
    /\ lock' = [lock EXCEPT !.now = @ + MsPerSecond \div 2, !.ran = NoRun]
    /\ UNCHANGED <<storeVars, builder, labelImport, screen, zoom>>

\* The app's state changes and the subscribed handler runs (lines 35-38).
AppStateChanged(nextAppState) ==
    /\ lock.mounted
    /\ nextAppState # lock.current
    /\ lock' = [HandleAppStateChanged(lock, nextAppState) EXCEPT
                    !.enteredBackground =
                        IF nextAppState = "background" THEN Timestamp(lock.now)
                        ELSE IF nextAppState = "active" THEN NoTimestamp ELSE @]
    /\ UNCHANGED <<storeVars, builder, labelImport, screen, zoom>>

\* The user unlocks the app, which is in the foreground: the lock screen calls
\* setLockTriggered(false).
Unlock ==
    /\ lock.mounted
    /\ lock.current = "active"
    /\ lock.lockTriggered
    /\ lock' = [lock EXCEPT !.lockTriggered = FALSE, !.ran = NoRun]
    /\ UNCHANGED <<storeVars, builder, labelImport, screen, zoom>>

NextLock ==
    \/ \E requiresAuth \in BOOLEAN, lockDeltaTime \in LockDeltaTimes,
          current \in AppStates, timestamp \in Timestamps, now \in Clock :
           MountRoot(requiresAuth, lockDeltaTime, current, timestamp, now)
    \/ Tick
    \/ \E nextAppState \in AppStates : AppStateChanged(nextAppState)
    \/ Unlock

SpecLock == Init /\ [][NextLock]_vars

\* A handler run has just finished.
HandlerRan == lock.ran # NoRun

\* C20: after a change to 'active' directly from 'background' while
\* authentication is required, the handler has triggered the lock if and only
\* if the time since the stored last-background timestamp (0 when none is
\* stored) is at least lockDeltaTime seconds; on no other change does it
\* trigger the lock; it has written the timestamp, with the current time, if
\* and only if the change was to 'background' while authentication is
\* required; and a lock that was triggered before the run is still triggered.
C20_InactivityLock ==
    HandlerRan =>
        LET ran == lock.ran
            fromBackground == /\ ran.nextAppState = "active"
                              /\ ran.previous = "background"
                              /\ lock.requiresAuth
            toBackground == ran.nextAppState = "background" /\ lock.requiresAuth
        IN /\ fromBackground =>
                (ran.triggered <=> ran.elapsedMs >= lock.lockDeltaTime * MsPerSecond)
           /\ ~fromBackground => ~ran.triggered
           /\ ran.wrote <=> toBackground
           /\ ran.wrote => lock.timestamp = Timestamp(lock.now)
           /\ lock.lockTriggered <=> (ran.before \/ ran.triggered)
           /\ lock.current = ran.nextAppState
\* The app comes back from the background exactly lockDeltaTime seconds after
\* it went there, unlocked, and the handler locks it.
C20_Witness ==
    /\ HandlerRan
    /\ lock.ran.nextAppState = "active" /\ lock.ran.previous = "background"
    /\ lock.requiresAuth /\ lock.lockDeltaTime > 0
    /\ lock.timestamp.stored
    /\ lock.ran.elapsedMs = lock.lockDeltaTime * MsPerSecond
    /\ ~lock.ran.before /\ lock.ran.triggered /\ lock.lockTriggered

\* The app becomes 'active' in this step.
BecomesActive == lock.mounted /\ lock.current # "active" /\ lock'.current = "active"

\* The app has been out of the foreground for at least lockDeltaTime seconds
\* since it entered 'background'.
AwayTooLong ==
    /\ lock.enteredBackground.stored
    /\ lock.now - lock.enteredBackground.ms >= lock.lockDeltaTime * MsPerSecond

\* C21: when the app becomes 'active' with authentication required, having
\* been out of the foreground for at least lockDeltaTime seconds since it
\* entered 'background', the lock is triggered, whatever app states it went
\* through in between.
C21_LockedOnReturn ==
    [][(BecomesActive /\ lock.requiresAuth /\ AwayTooLong) => lock'.lockTriggered]_vars

\* ---------------------------------------------------------------------------
\* Updates committed while a call is suspended.

\* The suspended call in slot c is resumed in this step.
Resumed(c) ==
    /\ calls[c].op # "idle"
    /\ calls'[c].op = "idle" \/ calls'[c].pc # calls[c].pc

\* Every transaction and every utxo key of account value `old` is in `new`.
KeepsContents(old, new) ==
    /\ \A i \in 1 .. Len(old.transactions) :
           \E j \in 1 .. Len(new.transactions) :
               new.transactions[j].id = old.transactions[i].id
    /\ \A i \in 1 .. Len(old.utxos) :
           \E j \in 1 .. Len(new.utxos) :
               HasKey(new.utxos[j], old.utxos[i].txid, old.utxos[i].vout)

\* C22: when a suspended getTx, getUtxo or setUtxoLabel call resumes, the
\* account stored under its name afterwards still holds every transaction and
\* utxo the stored account held just before, among them those an
\* updateAccount committed while the call was suspended.
C22_NoLostUpdate ==
    [][\A c \in Slots, name \in Names :
          (Resumed(c) /\ calls[c].name = name /\ HasAccountWithName(name)) =>
              /\ HasAccountWithName(name)'
              /\ KeepsContents(CurrentAccountValue(name), CurrentAccountValue(name)')]_vars

\* ---------------------------------------------------------------------------
\* The zoom gesture hook of the utxo bubbles screen (useZoomGesture).

\* ./constants and ./utils are imported by the hook (lines 22-23): the scale
\* limits, and clampScale, which brings a value into [min, max].
ScaleRanges == {[min |-> Num(1), max |-> Num(4)], [min |-> Rat(7, 5), max |-> Num(4)]}
clampScale(value, min, max) ==
    IF Less(value, min) THEN min ELSE IF Less(max, value) THEN max ELSE value

\* What the screen and the gestures hand to the hook.
DefaultScales == {Undefined, Num(2), Num(5)}
PinchScales == {Rat(1, 2), Num(3)}
Translations == {<<300, 0>>, <<-40, 500>>}
ContainerSizes == {Dimensions(100, 200)}
ContentSizes == {Dimensions(50, 200)}

\* getContentContainerSize (lines 83-90).
GetContentContainerSize(Z) ==
    [width |-> Num(Z.containerDimensions.width),
     height |-> Div(Num(Z.contentDimensions.height * Z.containerDimensions.width),
                    Num(Z.contentDimensions.width))]

\* zoomIn (lines 92-111): lastScale takes the clamped scale, baseScale is
\* animated to the scale as configured.
ZoomIn(Z) ==
    LET newScale == IF Z.defaultScale = Undefined THEN Z.MIN_SCALE ELSE Z.defaultScale
    IN [Z EXCEPT !.lastScale = clampScale(newScale, Z.MIN_SCALE, Z.MAX_SCALE),
                 !.baseScale = newScale, !.pinchScale = Num(1),
                 !.lastOffsetX = Num(0), !.lastOffsetY = Num(0),
                 !.translateX = Num(0), !.translateY = Num(0),
                 !.isZoomedIn = TRUE]

\* zoomOut (lines 126-142).
ZoomOut(Z) ==
    [Z EXCEPT !.lastScale = Num(1), !.baseScale = Num(1), !.pinchScale = Num(1),
              !.lastOffsetX = Num(0), !.lastOffsetY = Num(0),
              !.translateX = Num(0), !.translateY = Num(0),
              !.isZoomedIn = FALSE]

\* maxOffset on one axis (lines 162-175).
MaxOffset(size, scale, container) ==
    IF Less(Mul(size, scale), Num(container)) THEN Num(0)
    ELSE Div(Div(Sub(Mul(size, scale), Num(container)), Num(2)), scale)

\* The correction of one axis (lines 177-193).
Corrected(offset, maxOffset) ==
    IF Less(maxOffset, offset) \/ Less(offset, Neg(maxOffset))
    THEN IF AtMost(Num(0), offset) THEN maxOffset ELSE Neg(maxOffset)
    ELSE offset

\* The timer's callback (lines 159-194).
PanOutsideCorrection(Z) ==
    LET size == GetContentContainerSize(Z)
        x == Corrected(Z.lastOffsetX,
                       MaxOffset(size.width, Z.lastScale, Z.containerDimensions.width))
        y == Corrected(Z.lastOffsetY,
                       MaxOffset(size.height, Z.lastScale, Z.containerDimensions.height))
    IN [Z EXCEPT !.lastOffsetX = x, !.translateX = x,
                 !.lastOffsetY = y, !.translateY = y]

\* handlePanOutside without the clearTimeout of lines 156-157.
HandlePanOutsideKeeping(Z) ==
    [Z EXCEPT !.timers = @ \cup {Z.handlePanOutsideTimeoutId + 1},
              !.handlePanOutsideTimeoutId = @ + 1]
\* handlePanOutside (lines 155-159, 194): the timer the reference names is
\* cleared and a new one is set; timer ids count up from 1, 0 standing for the
\* reference's initial undefined.
HandlePanOutside(Z) ==
    [Z EXCEPT !.timers = (@ \ {Z.handlePanOutsideTimeoutId})
                             \cup {Z.handlePanOutsideTimeoutId + 1},
              !.handlePanOutsideTimeoutId = @ + 1]

\* onDoubleTap that zooms in whatever isZoomedIn is.
OnDoubleTapZoomIn(Z) == ZoomIn(Z)
\* onDoubleTap (lines 209-212).
OnDoubleTap(Z) == IF Z.isZoomedIn THEN ZoomOut(Z) ELSE ZoomIn(Z)

\* onPinchEnd (lines 244-259).
OnPinchEnd(Z, scale) ==
    LET newScale == Mul(Z.lastScale, scale)
    IN IF Less(Num(1), newScale)
       THEN HandlePanOutside([Z EXCEPT !.lastScale = newScale, !.isZoomedIn = TRUE,
                                       !.baseScale = newScale, !.pinchScale = Num(1)])
       ELSE ZoomOut([Z EXCEPT !.lastScale = newScale])

\* The handler that ran; for a double tap, whether it found the content zoomed
\* in and whether it follows a double tap that did not.
Event(kind) ==
    [kind |-> kind,
     wasZoomedIn |-> kind = "doubleTap" /\ zoom.isZoomedIn,
     afterZoomIn |-> kind = "doubleTap" /\ zoom.ran.kind = "doubleTap"
                     /\ ~zoom.ran.wasZoomedIn]

\* The hook is called by the screen (lines 41-68).
MountZoom(range, defaultScale) ==
    /\ ~zoom.mounted
    /\ zoom' = [NoZoom EXCEPT !.mounted = TRUE, !.MIN_SCALE = range.min,
                              !.MAX_SCALE = range.max, !.defaultScale = defaultScale]
    /\ UNCHANGED <<storeVars, builder, labelImport, screen, lock>>

\* onLayout (lines 215-227).
OnLayout(dimensions) ==
    /\ zoom.mounted /\ zoom.containerDimensions # dimensions
    /\ zoom' = [zoom EXCEPT !.containerDimensions = dimensions, !.ran = Event("onLayout")]
    /\ UNCHANGED <<storeVars, builder, labelImport, screen, lock>>

\* onLayoutContent (lines 230-242).
OnLayoutContent(dimensions) ==
    /\ zoom.mounted /\ zoom.contentDimensions # dimensions
    /\ zoom' = [zoom EXCEPT !.contentDimensions = dimensions,
                            !.ran = Event("onLayoutContent")]
    /\ UNCHANGED <<storeVars, builder, labelImport, screen, lock>>

\* The tap gesture ends (lines 270-274): onDoubleTap runs.
DoubleTap ==
    /\ zoom.mounted /\ zoom.gestures < MaxGestures
    /\ zoom' = [OnDoubleTap(zoom) EXCEPT !.gestures = @ + 1, !.ran = Event("doubleTap")]
    /\ UNCHANGED <<storeVars, builder, labelImport, screen, lock>>

\* The pinch gesture ends with `scale` (lines 345-355): onPinchEnd runs.
PinchEnd(scale) ==
    /\ zoom.mounted /\ zoom.gestures < MaxGestures
    /\ zoom' = [OnPinchEnd(zoom, scale) EXCEPT !.gestures = @ + 1,
                                               !.ran = Event("pinchEnd")]
    /\ UNCHANGED <<storeVars, builder, labelImport, screen, lock>>

\* The two-finger pan starts (lines 279-289); its translation is still 0.
PanStart ==
    /\ zoom.mounted /\ zoom.gestures < MaxGestures /\ ~zoom.panning
    /\ zoom' = [zoom EXCEPT !.panStartOffsetX = Num(0), !.panStartOffsetY = Num(0),
                            !.panning = TRUE, !.gestures = @ + 1,
                            !.ran = Event("panStart")]
    /\ UNCHANGED <<storeVars, builder, labelImport, screen, lock>>

\* The pan ends at `translation` (lines 290-324): the last onUpdate moved the
\* content there, onEnd saves the position and calls handlePanOutside.
PanEnd(translation) ==
    LET x == Add(zoom.lastOffsetX,
                 Div(Sub(Num(translation[1]), zoom.panStartOffsetX), zoom.lastScale))
        y == Add(zoom.lastOffsetY,
                 Div(Sub(Num(translation[2]), zoom.panStartOffsetY), zoom.lastScale))
    IN /\ zoom.mounted /\ zoom.panning
       /\ zoom' = [HandlePanOutside([zoom EXCEPT !.translateX = x, !.translateY = y,
                                                 !.lastOffsetX = x, !.lastOffsetY = y])
                       EXCEPT !.panning = FALSE, !.ran = Event("panEnd")]
       /\ UNCHANGED <<storeVars, builder, labelImport, screen, lock>>

\* A pending timer fires (lines 159-194).
TimerFires ==
    /\ \E id \in zoom.timers :
           zoom' = [PanOutsideCorrection(zoom) EXCEPT !.timers = @ \ {id},
                                                     !.fired = @ + 1,
                                                     !.ran = Event("timer")]
    /\ UNCHANGED <<storeVars, builder, labelImport, screen, lock>>

NextZoom ==
    \/ \E range \in ScaleRanges, defaultScale \in DefaultScales :
           MountZoom(range, defaultScale)
    \/ \E dimensions \in ContainerSizes : OnLayout(dimensions)
    \/ \E dimensions \in ContentSizes : OnLayoutContent(dimensions)
    \/ DoubleTap
    \/ \E scale \in PinchScales : PinchEnd(scale)
    \/ PanStart
    \/ \E translation \in Translations : PanEnd(translation)
    \/ TimerFires

SpecZoom == Init /\ [][NextZoom]_vars

\* The zoomed-out state.
ZoomedOut ==
    /\ ~zoom.isZoomedIn /\ zoom.lastScale = Num(1)
    /\ zoom.lastOffsetX = Num(0) /\ zoom.lastOffsetY = Num(0)

\* The value of [min, max] nearest to `value`.
Distance(a, b) == IF Less(a, b) THEN Sub(b, a) ELSE Sub(a, b)
Nearest(value, min, max) ==
    LET within == {v \in {value, min, max} : AtMost(min, v) /\ AtMost(v, max)}
    IN CHOOSE v \in within :
           \A w \in within : AtMost(Distance(v, value), Distance(w, value))

\* C23: a double tap made while isZoomedIn is false zooms in (isZoomedIn true,
\* lastScale the configured double-tap scale, MIN_SCALE when none is
\* configured, brought into [MIN_SCALE, MAX_SCALE], offsets 0); one made while
\* isZoomedIn is true zooms out; the second of two double taps in a row that
\* started zoomed out ends zoomed out.
C23_DoubleTapToggles ==
    zoom.ran.kind = "doubleTap" =>
        /\ ~zoom.ran.wasZoomedIn =>
              /\ zoom.isZoomedIn
              /\ zoom.lastScale =
                     Nearest(IF zoom.defaultScale = Undefined THEN zoom.MIN_SCALE
                             ELSE zoom.defaultScale, zoom.MIN_SCALE, zoom.MAX_SCALE)
              /\ zoom.lastOffsetX = Num(0) /\ zoom.lastOffsetY = Num(0)
        /\ zoom.ran.wasZoomedIn => ZoomedOut
        /\ zoom.ran.afterZoomIn => ZoomedOut
\* Two double taps in a row from the zoomed-out state, the configured scale
\* being above MAX_SCALE.
C23_Witness ==
    /\ zoom.ran.kind = "doubleTap" /\ zoom.ran.afterZoomIn /\ zoom.ran.wasZoomedIn
    /\ zoom.defaultScale # Undefined /\ Less(zoom.MAX_SCALE, zoom.defaultScale)
    /\ ZoomedOut

\* C24: after every double tap and every pinch lastScale is within
\* [MIN_SCALE, MAX_SCALE], or is the 1 of the zoomed-out state; and after a
\* pinch has ended isZoomedIn is true exactly when lastScale is above 1, a
\* pinch that ended at a product of at most 1 leaving the zoomed-out state.
C24_ScaleInRange ==
    /\ zoom.ran.kind \in {"doubleTap", "pinchEnd"} =>
           \/ ZoomedOut
           \/ AtMost(zoom.MIN_SCALE, zoom.lastScale)
              /\ AtMost(zoom.lastScale, zoom.MAX_SCALE)
    /\ zoom.ran.kind = "pinchEnd" =>
           /\ zoom.isZoomedIn <=> Less(Num(1), zoom.lastScale)
           /\ ~zoom.isZoomedIn => ZoomedOut

\* maxOffset of the two axes for the state's scale and sizes: 0 where the
\* scaled content is smaller than the container, else half of what sticks
\* out, in content coordinates.
Excess(size, container) ==
    LET scaled == Mul(size, zoom.lastScale)
    IN IF Less(scaled, Num(container)) THEN Num(0)
       ELSE Div(Sub(scaled, Num(container)), Mul(Num(2), zoom.lastScale))
MaxOffsetX == Excess(Num(zoom.containerDimensions.width), zoom.containerDimensions.width)
MaxOffsetY ==
    Excess(Div(Num(zoom.contentDimensions.height * zoom.containerDimensions.width),
               Num(zoom.contentDimensions.width)),
           zoom.containerDimensions.height)

\* C25: at most one correction timer is pending, and when a timer has just
\* fired lastOffsetX is within [-maxOffset.x, maxOffset.x] and lastOffsetY
\* within [-maxOffset.y, maxOffset.y].
C25_DebouncedClamp ==
    /\ Cardinality(zoom.timers) <= 1
    /\ zoom.ran.kind = "timer" =>
           /\ AtMost(Neg(MaxOffsetX), zoom.lastOffsetX)
           /\ AtMost(zoom.lastOffsetX, MaxOffsetX)
           /\ AtMost(Neg(MaxOffsetY), zoom.lastOffsetY)
           /\ AtMost(zoom.lastOffsetY, MaxOffsetY)
\* The second timer fired and the first never did: it was cancelled by the
\* second handlePanOutside call; the correction moved the content to the
\* limit of an axis on which the scaled content is larger than the container.
C25_Witness ==
    /\ zoom.ran.kind = "timer"
    /\ zoom.handlePanOutsideTimeoutId = 2 /\ zoom.fired = 1 /\ zoom.timers = {}
    /\ zoom.lastOffsetX # Num(0)
    /\ zoom.lastOffsetX \in {MaxOffsetX, Neg(MaxOffsetX)}
    /\ zoom.lastOffsetY = Num(0) /\ MaxOffsetY # Num(0)

====
